---------------------------- MODULE Spec2Model ----------------------------
(***************************************************************************)
(* Model of libassuan's system support layer (src/system.c): the           *)
(* per-context memory hooks, the versioned system hook table and its       *)
(* merge (_assuan_system_hooks_copy), and the dispatching wrappers that    *)
(* either call the table's slot or the built-in __assuan_* function        *)
(* between _assuan_pre_syscall and _assuan_post_syscall.                    *)
(***************************************************************************)
EXTENDS Integers, Sequences, FiniteSets, TLC

(***************************************************************************)
(* Bounds of the model.                                                    *)
(***************************************************************************)
\* size_t is SizeBits wide: sizes are 0 .. 2^SizeBits - 1 and wrap around.
SizeBits == 3
\* Caller-supplied tables declare a version in 0 .. MaxVersion.
MaxVersion == 3

\* The library's current hook table version: system.c treats src->version > 2
\* as "application uses newer version of the library".
ASSUAN_SYSTEM_HOOKS_VERSION == 2

SizeMod == 2 ^ SizeBits
Sizes == 0 .. (SizeMod - 1)
\* The applications supplying hook tables, each with functions of its own.
Owners == {"app1", "app2"}

(***************************************************************************)
(* Function pointers and hook tables (struct assuan_system_hooks).         *)
(***************************************************************************)
\* The slots copied when src->version >= 1, in the order of the struct.
V1Slots ==
  {"usleep", "pipe", "close", "read", "write", "sendmsg", "recvmsg",
   "spawn", "waitpid", "socketpair"}

\* The slots copied when src->version >= 2.
V2Slots == {"socket", "connect"}

SlotNames == V1Slots \cup V2Slots

\* A null function pointer.
FnNull == [by |-> "null", fn |-> "null"]

\* The built-in implementation __assuan_<s>.
Builtin(s) == [by |-> "lib", fn |-> s]

\* The function application o supplies for slot s.
Hook(o, s) == [by |-> o, fn |-> s]

\* A table with the given version whose slots are given by the function f.
MkTable(v, f) ==
  [version |-> v,
   usleep |-> f["usleep"], pipe |-> f["pipe"], close |-> f["close"],
   read |-> f["read"], write |-> f["write"], sendmsg |-> f["sendmsg"],
   recvmsg |-> f["recvmsg"], spawn |-> f["spawn"], waitpid |-> f["waitpid"],
   socketpair |-> f["socketpair"], socket |-> f["socket"],
   connect |-> f["connect"]]

\* The initial value of the global _assuan_system_hooks: the library's
\* version and the built-in function in every slot.
DefaultTable == MkTable(ASSUAN_SYSTEM_HOOKS_VERSION, [s \in SlotNames |-> Builtin(s)])

\* A zero-filled table: version 0, every slot a null pointer.
ZeroTable == MkTable(0, [s \in SlotNames |-> FnNull])

\* The table application o fills in, declaring version v and leaving the
\* slots in nul as null pointers.
UserTable(v, o, nul) ==
  MkTable(v, [s \in SlotNames |-> IF s \in nul THEN FnNull ELSE Hook(o, s)])

\* Which slots a caller may leave unset.
NullSets == {{}, {"read", "connect"}}

\* The tables callers pass as src.
UserTables ==
  {UserTable(v, o, nul) : v \in 0 .. MaxVersion, o \in Owners, nul \in NullSets}

\* A pointer to a table is <<>> (NULL) or <<t>>.
NullPtr == <<>>

\* The tables a context record holds before any merge: zero-filled, or
\* version 0 with whatever an earlier user left in the slots.
CtxInitTables == {ZeroTable} \cup {UserTable(0, o, {}) : o \in Owners}

Slots(t) == [s \in SlotNames |-> t[s]]

(***************************************************************************)
(* State.                                                                  *)
(***************************************************************************)
VARIABLES
  _assuan_system_hooks, \* the process-wide default table
  system,               \* ctx->system of every context
  errno,                \* the thread's errno
  alive,                \* FALSE once the process has crashed
  last,                 \* the last call made into the layer and its arguments
  events,               \* what that call did, in order
  ret,                  \* what that call returned
  handed,               \* the message and flags given to each underlying call
  pc,                   \* where each thread stands in its merge
  job                   \* the arguments of each thread's merge

vars ==
  <<_assuan_system_hooks, system, errno, alive, last, events, ret, handed,
    pc, job>>

\* Events of a call.
Pre == [ev |-> "pre_syscall"]
Post == [ev |-> "post_syscall"]
CallSlot(s, f) == [ev |-> "call", via |-> "slot", slot |-> s, fn |-> f]
CallDefault(s) == [ev |-> "call", via |-> "direct", slot |-> s, fn |-> Builtin(s)]
CallMem(h, n) == [ev |-> "mem", hook |-> h, n |-> n]
CallFree(ptr) == [ev |-> "mem", hook |-> "free", ptr |-> ptr]
Memset(n) == [ev |-> "memset", n |-> n]

(***************************************************************************)
(* Memory functions.                                                       *)
(***************************************************************************)
\* _assuan_malloc: p is what ctx->malloc_hooks.malloc returns.
_assuan_malloc(cnt, p) ==
  [events |-> <<CallMem("malloc", cnt)>>, ret |-> p, errno |-> "unchanged"]

\* _assuan_realloc: p is what ctx->malloc_hooks.realloc returns.
_assuan_realloc(cnt, p) ==
  [events |-> <<CallMem("realloc", cnt)>>, ret |-> p, errno |-> "unchanged"]

\* The overflow check as a common slip would write it.
calloc_overflow_weak(cnt, elsize, nbytes) == nbytes < cnt

\* The overflow check of _assuan_calloc.
calloc_overflow(cnt, elsize, nbytes) ==
  elsize # 0 /\ (nbytes \div elsize) # cnt

\* _assuan_calloc: p is what ctx->malloc_hooks.malloc returns when called.
_assuan_calloc(cnt, elsize, p) ==
  LET nbytes == (cnt * elsize) % SizeMod
  IN IF calloc_overflow(cnt, elsize, nbytes)
       THEN [events |-> <<>>, ret |-> "NULL", errno |-> "ENOMEM"]
       ELSE [events |-> <<CallMem("malloc", nbytes)>>
                         \o (IF p # "NULL" THEN <<Memset(nbytes)>> ELSE <<>>),
             ret |-> p, errno |-> "unchanged"]

\* A free without the test for NULL.
free_unguarded(ptr) ==
  [events |-> <<CallFree(ptr)>>, ret |-> "void", errno |-> "unchanged"]

\* _assuan_free.
_assuan_free(ptr) ==
  [events |-> IF ptr # "NULL" THEN <<CallFree(ptr)>> ELSE <<>>,
   ret |-> "void", errno |-> "unchanged"]

\* assuan_free: calls _assuan_free.
assuan_free(ptr) == _assuan_free(ptr)

(***************************************************************************)
(* The merge of hook tables.                                               *)
(***************************************************************************)
\* The version >= 1 block without the last field.
copy_v1_short(d, s) ==
  [d EXCEPT !.usleep = s.usleep, !.pipe = s.pipe, !.close = s.close,
            !.read = s.read, !.write = s.write, !.sendmsg = s.sendmsg,
            !.recvmsg = s.recvmsg, !.spawn = s.spawn, !.waitpid = s.waitpid]

\* The assignments of the src->version >= 1 block.
copy_v1(d, s) ==
  [d EXCEPT !.usleep = s.usleep, !.pipe = s.pipe, !.close = s.close,
            !.read = s.read, !.write = s.write, !.sendmsg = s.sendmsg,
            !.recvmsg = s.recvmsg, !.spawn = s.spawn, !.waitpid = s.waitpid,
            !.socketpair = s.socketpair]

\* The version >= 2 block with the connect assignment missing.
copy_v2_short(d, s) == [d EXCEPT !.socket = s.socket]

\* The assignments of the src->version >= 2 block.
copy_v2(d, s) == [d EXCEPT !.socket = s.socket, !.connect = s.connect]

\* The merge with the reset to the defaults done before the NULL test.
hooks_copy_reset_first(dstv, dstIsGlobal, srcp, glob) ==
  LET d0 == IF ~dstIsGlobal THEN glob ELSE dstv
  IN IF srcp = NullPtr THEN d0
     ELSE LET src == srcp[1]
              d1 == [d0 EXCEPT !.version = ASSUAN_SYSTEM_HOOKS_VERSION]
              d2 == IF src.version >= 1 THEN copy_v1(d1, src) ELSE d1
              d3 == IF src.version >= 2 THEN copy_v2(d2, src) ELSE d2
          IN d3

\* The merge with the first version gate off by one (src->version >= 0).
hooks_copy_gate_zero(dstv, dstIsGlobal, srcp, glob) ==
  IF srcp = NullPtr THEN dstv
  ELSE LET src == srcp[1]
           d0 == IF ~dstIsGlobal THEN glob ELSE dstv
           d1 == [d0 EXCEPT !.version = ASSUAN_SYSTEM_HOOKS_VERSION]
           d2 == IF src.version >= 0 THEN copy_v1(d1, src) ELSE d1
           d3 == IF src.version >= 2 THEN copy_v2(d2, src) ELSE d2
       IN d3

\* The merge storing the caller's version instead of the library's.
hooks_copy_src_version(dstv, dstIsGlobal, srcp, glob) ==
  IF srcp = NullPtr THEN dstv
  ELSE LET src == srcp[1]
           d0 == IF ~dstIsGlobal THEN glob ELSE dstv
           d1 == [d0 EXCEPT !.version = src.version]
           d2 == IF src.version >= 1 THEN copy_v1(d1, src) ELSE d1
           d3 == IF src.version >= 2 THEN copy_v2(d2, src) ELSE d2
       IN d3

\* The merge without the reset of dst to the defaults.
hooks_copy_no_reset(dstv, dstIsGlobal, srcp, glob) ==
  IF srcp = NullPtr THEN dstv
  ELSE LET src == srcp[1]
           d1 == [dstv EXCEPT !.version = ASSUAN_SYSTEM_HOOKS_VERSION]
           d2 == IF src.version >= 1 THEN copy_v1(d1, src) ELSE d1
           d3 == IF src.version >= 2 THEN copy_v2(d2, src) ELSE d2
       IN d3

\* The merge with the second gate testing for exactly version 2.
hooks_copy_exact_two(dstv, dstIsGlobal, srcp, glob) ==
  IF srcp = NullPtr THEN dstv
  ELSE LET src == srcp[1]
           d0 == IF ~dstIsGlobal THEN glob ELSE dstv
           d1 == [d0 EXCEPT !.version = ASSUAN_SYSTEM_HOOKS_VERSION]
           d2 == IF src.version >= 1 THEN copy_v1(d1, src) ELSE d1
           d3 == IF src.version = 2 THEN copy_v2(d2, src) ELSE d2
       IN d3

\* _assuan_system_hooks_copy (dst, src): dstv is *dst before the call,
\* dstIsGlobal says whether dst == &_assuan_system_hooks, srcp is the src
\* pointer and glob the value of _assuan_system_hooks.  The result is *dst
\* after the call.
_assuan_system_hooks_copy(dstv, dstIsGlobal, srcp, glob) ==
  IF srcp = NullPtr THEN dstv
  ELSE LET src == srcp[1]
           d0 == IF ~dstIsGlobal THEN glob ELSE dstv
           d1 == [d0 EXCEPT !.version = ASSUAN_SYSTEM_HOOKS_VERSION]
           d2 == IF src.version >= 1 THEN copy_v1(d1, src) ELSE d1
           d3 == IF src.version >= 2 THEN copy_v2(d2, src) ELSE d2
       IN d3

\* The memcpy of lines 110-111 on the tables sys of all contexts: the
\* table of context dst becomes a copy of the default table glob.
copy_reset_every(sys, dst, glob) == [c \in DOMAIN sys |-> glob]

copy_reset(sys, dst, glob) == [sys EXCEPT ![dst] = glob]

(***************************************************************************)
(* The dispatching wrappers.  sys is ctx->system; r is what the function   *)
(* that gets called returns.  Each yields the calls and notifications the  *)
(* wrapper makes, in order, and its return value.                          *)
(***************************************************************************)
\* _assuan_usleep: void; hook, or the default between pre and post.
_assuan_usleep(sys) ==
  IF sys.version # 0
    THEN [events |-> <<CallSlot("usleep", sys.usleep)>>, ret |-> "void"]
    ELSE [events |-> <<Pre, CallDefault("usleep"), Post>>, ret |-> "void"]

\* _assuan_pipe: hook or __assuan_pipe; returns err.
_assuan_pipe(sys, r) ==
  IF sys.version # 0
    THEN [events |-> <<CallSlot("pipe", sys.pipe)>>, ret |-> r]
    ELSE [events |-> <<CallDefault("pipe")>>, ret |-> r]

\* The close wrapper with the notifications around the hook call as well.
close_bracket_hook(sys, r) ==
  IF sys.version # 0
    THEN [events |-> <<Pre, CallSlot("close", sys.close), Post>>, ret |-> r]
    ELSE [events |-> <<Pre, CallDefault("close"), Post>>, ret |-> r]

\* _assuan_close.
_assuan_close(sys, r) ==
  IF sys.version # 0
    THEN [events |-> <<CallSlot("close", sys.close)>>, ret |-> r]
    ELSE [events |-> <<Pre, CallDefault("close"), Post>>, ret |-> r]

\* _assuan_close_inheritable: the close slot again.
_assuan_close_inheritable(sys, r) ==
  IF sys.version # 0
    THEN [events |-> <<CallSlot("close", sys.close)>>, ret |-> r]
    ELSE [events |-> <<Pre, CallDefault("close"), Post>>, ret |-> r]

\* The read wrapper returning early, before the post notification, when
\* the default read fails.
read_no_post_on_error(sys, r) ==
  IF sys.version # 0
    THEN [events |-> <<CallSlot("read", sys.read)>>, ret |-> r]
    ELSE IF r = "err"
      THEN [events |-> <<Pre, CallDefault("read")>>, ret |-> r]
      ELSE [events |-> <<Pre, CallDefault("read"), Post>>, ret |-> r]

\* The read wrapper calling again after a partial transfer.
read_retry_partial(sys, r) ==
  IF sys.version # 0
    THEN IF r = "partial"
      THEN [events |-> <<CallSlot("read", sys.read),
                         CallSlot("read", sys.read)>>, ret |-> "full"]
      ELSE [events |-> <<CallSlot("read", sys.read)>>, ret |-> r]
    ELSE IF r = "partial"
      THEN [events |-> <<Pre, CallDefault("read"), Post,
                         Pre, CallDefault("read"), Post>>, ret |-> "full"]
      ELSE [events |-> <<Pre, CallDefault("read"), Post>>, ret |-> r]

\* _assuan_read (DEBUG_SYSIO is 0: the #else branch).
_assuan_read(sys, r) ==
  IF sys.version # 0
    THEN [events |-> <<CallSlot("read", sys.read)>>, ret |-> r]
    ELSE [events |-> <<Pre, CallDefault("read"), Post>>, ret |-> r]

\* The write wrapper testing the slot instead of the version.
write_by_slot(sys, r) ==
  IF sys.write # FnNull
    THEN [events |-> <<CallSlot("write", sys.write)>>, ret |-> r]
    ELSE [events |-> <<Pre, CallDefault("write"), Post>>, ret |-> r]

\* _assuan_write (the #else branch).
_assuan_write(sys, r) ==
  IF sys.version # 0
    THEN [events |-> <<CallSlot("write", sys.write)>>, ret |-> r]
    ELSE [events |-> <<Pre, CallDefault("write"), Post>>, ret |-> r]

\* The (msg, flags) arguments of one underlying sendmsg or recvmsg call.
MsgArgs(msg, flags) == [msg |-> msg, flags |-> flags]

\* _assuan_recvmsg (the #else branch).
_assuan_recvmsg(sys, msg, flags, r) ==
  IF sys.version # 0
    THEN [events |-> <<CallSlot("recvmsg", sys.recvmsg)>>, ret |-> r,
          args |-> <<MsgArgs(msg, flags)>>]
    ELSE [events |-> <<Pre, CallDefault("recvmsg"), Post>>, ret |-> r,
          args |-> <<MsgArgs(msg, flags)>>]

\* A sendmsg that sends the data first and the descriptors in a second
\* call.
sendmsg_split(sys, msg, flags, r) ==
  IF msg.data = "none" \/ msg.fds = "none"
    THEN IF sys.version # 0
           THEN [events |-> <<CallSlot("sendmsg", sys.sendmsg)>>, ret |-> r,
                 args |-> <<MsgArgs(msg, flags)>>]
           ELSE [events |-> <<Pre, CallDefault("sendmsg"), Post>>, ret |-> r,
                 args |-> <<MsgArgs(msg, flags)>>]
    ELSE LET args == <<MsgArgs([msg EXCEPT !.fds = "none"], flags),
                       MsgArgs([msg EXCEPT !.data = "none"], flags)>>
         IN IF sys.version # 0
              THEN [events |-> <<CallSlot("sendmsg", sys.sendmsg),
                                 CallSlot("sendmsg", sys.sendmsg)>>,
                    ret |-> r, args |-> args]
              ELSE [events |-> <<Pre, CallDefault("sendmsg"),
                                 CallDefault("sendmsg"), Post>>,
                    ret |-> r, args |-> args]

\* _assuan_sendmsg (the #else branch).
_assuan_sendmsg(sys, msg, flags, r) ==
  IF sys.version # 0
    THEN [events |-> <<CallSlot("sendmsg", sys.sendmsg)>>, ret |-> r,
          args |-> <<MsgArgs(msg, flags)>>]
    ELSE [events |-> <<Pre, CallDefault("sendmsg"), Post>>, ret |-> r,
          args |-> <<MsgArgs(msg, flags)>>]

\* _assuan_spawn: hook or __assuan_spawn; returns res.
_assuan_spawn(sys, r) ==
  IF sys.version # 0
    THEN [events |-> <<CallSlot("spawn", sys.spawn)>>, ret |-> r]
    ELSE [events |-> <<CallDefault("spawn")>>, ret |-> r]

\* _assuan_waitpid (the #else branch).
_assuan_waitpid(sys, r) ==
  IF sys.version # 0
    THEN [events |-> <<CallSlot("waitpid", sys.waitpid)>>, ret |-> r]
    ELSE [events |-> <<Pre, CallDefault("waitpid"), Post>>, ret |-> r]

\* _assuan_socketpair: hook or __assuan_socketpair.
_assuan_socketpair(sys, r) ==
  IF sys.version # 0
    THEN [events |-> <<CallSlot("socketpair", sys.socketpair)>>, ret |-> r]
    ELSE [events |-> <<CallDefault("socketpair")>>, ret |-> r]

\* The socket wrapper calling the slot only from version 2 on.
socket_gate_two(sys, r) ==
  IF sys.version >= 2
    THEN [events |-> <<CallSlot("socket", sys.socket)>>, ret |-> r]
    ELSE [events |-> <<CallDefault("socket")>>, ret |-> r]

\* _assuan_socket: hook or __assuan_socket.
_assuan_socket(sys, r) ==
  IF sys.version # 0
    THEN [events |-> <<CallSlot("socket", sys.socket)>>, ret |-> r]
    ELSE [events |-> <<CallDefault("socket")>>, ret |-> r]

\* The connect wrapper written like _assuan_socket, without notifications.
connect_unbracketed(sys, r) ==
  IF sys.version # 0
    THEN [events |-> <<CallSlot("connect", sys.connect)>>, ret |-> r]
    ELSE [events |-> <<CallDefault("connect")>>, ret |-> r]

\* _assuan_connect.
_assuan_connect(sys, r) ==
  IF sys.version # 0
    THEN [events |-> <<CallSlot("connect", sys.connect)>>, ret |-> r]
    ELSE [events |-> <<Pre, CallDefault("connect"), Post>>, ret |-> r]

(***************************************************************************)
(* Calls into the layer.                                                   *)
(***************************************************************************)
\* What a called function may return to the wrapper.
Results == {"ok", "err"}

\* What a read or write may return: everything, a part, or an error.
IoResults == {"full", "partial", "err"}

\* What an allocation hook may return.
Pointers == {"NULL", "ptr", "ptr2"}

\* The msghdr of a sendmsg or recvmsg call: the data buffer (msg_iov) and
\* the descriptors carried in the control data (msg_control).
Messages ==
  {[data |-> "bytes", fds |-> "none"], [data |-> "bytes", fds |-> "fd"]}

\* The flags argument of a sendmsg or recvmsg call.
Flags == {"none", "MSG_DONTWAIT"}

\* Calling through a null function pointer ends the process.
Crashes(evs) ==
  \E i \in 1 .. Len(evs) : evs[i].ev = "call" /\ evs[i].fn = FnNull

\* The src arguments of a merge: NULL, a caller's table, or the global
\* table itself.
SrcPointers ==
  {NullPtr} \cup {<<t>> : t \in UserTables} \cup {<<_assuan_system_hooks>>}

\* Record the call l with its events evs, return value rv, errno e and
\* the message arguments args of its underlying calls.
Record(l, evs, rv, e, args) ==
  /\ last' = l
  /\ events' = evs
  /\ alive' = ~Crashes(evs)
  /\ ret' = IF Crashes(evs) THEN "crash" ELSE rv
  /\ errno' = IF e = "unchanged" THEN errno ELSE e
  /\ handed' = args

\* A call made outside the threads of the concurrent specification.
FinishWith(l, evs, rv, e, args) ==
  /\ Record(l, evs, rv, e, args)
  /\ UNCHANGED <<pc, job>>

\* Record a call that takes no message.
Finish(l, evs, rv, e) == FinishWith(l, evs, rv, e, <<>>)

\* A wrapper call on context c, where the called function returns r: the
\* tables stay as they are.
Dispatch(name, c, r, res) ==
  /\ alive
  /\ Finish([op |-> name, ctx |-> c, r |-> r], res.events, res.ret,
            "unchanged")
  /\ UNCHANGED <<_assuan_system_hooks, system>>

\* A sendmsg or recvmsg call on context c with message msg and flags.
DispatchMsg(name, c, msg, flags, r, res) ==
  /\ alive
  /\ FinishWith([op |-> name, ctx |-> c, r |-> r, msg |-> msg,
                 flags |-> flags],
                res.events, res.ret, "unchanged", res.args)
  /\ UNCHANGED <<_assuan_system_hooks, system>>

Malloc ==
  \E cnt \in Sizes, p \in Pointers :
    LET res == _assuan_malloc(cnt, p)
    IN /\ alive
       /\ Finish([op |-> "malloc", cnt |-> cnt], res.events, res.ret, res.errno)
       /\ UNCHANGED <<_assuan_system_hooks, system>>

Realloc ==
  \E cnt \in Sizes, p \in Pointers :
    LET res == _assuan_realloc(cnt, p)
    IN /\ alive
       /\ Finish([op |-> "realloc", cnt |-> cnt], res.events, res.ret, res.errno)
       /\ UNCHANGED <<_assuan_system_hooks, system>>

Calloc ==
  \E cnt \in Sizes, elsize \in Sizes, p \in Pointers :
    LET res == _assuan_calloc(cnt, elsize, p)
    IN /\ alive
       /\ Finish([op |-> "calloc", cnt |-> cnt, elsize |-> elsize],
                 res.events, res.ret, res.errno)
       /\ UNCHANGED <<_assuan_system_hooks, system>>

Free ==
  \E ptr \in Pointers :
    LET res == _assuan_free(ptr)
    IN /\ alive
       /\ Finish([op |-> "free", ptr |-> ptr], res.events, res.ret, res.errno)
       /\ UNCHANGED <<_assuan_system_hooks, system>>

AssuanFree ==
  \E ptr \in Pointers :
    LET res == assuan_free(ptr)
    IN /\ alive
       /\ Finish([op |-> "assuan_free", ptr |-> ptr], res.events, res.ret,
                 res.errno)
       /\ UNCHANGED <<_assuan_system_hooks, system>>

\* _assuan_system_hooks_copy (&_assuan_system_hooks, src).
CopyToGlobal ==
  \E srcp \in SrcPointers :
    /\ alive
    /\ _assuan_system_hooks' =
         _assuan_system_hooks_copy(_assuan_system_hooks, TRUE, srcp,
                                   _assuan_system_hooks)
    /\ Finish([op |-> "hooks_copy", dst |-> "global", src |-> srcp],
              <<>>, "void", "unchanged")
    /\ UNCHANGED system

\* _assuan_system_hooks_copy (&ctx->system, src).
CopyToContext ==
  \E c \in DOMAIN system, srcp \in SrcPointers :
    /\ alive
    /\ system' = [system EXCEPT ![c] =
         _assuan_system_hooks_copy(system[c], FALSE, srcp,
                                   _assuan_system_hooks)]
    /\ Finish([op |-> "hooks_copy", dst |-> c, src |-> srcp],
              <<>>, "void", "unchanged")
    /\ UNCHANGED _assuan_system_hooks

Usleep ==
  \E c \in DOMAIN system : Dispatch("usleep", c, "void", _assuan_usleep(system[c]))

Pipe ==
  \E c \in DOMAIN system, r \in Results :
    Dispatch("pipe", c, r, _assuan_pipe(system[c], r))

Close ==
  \E c \in DOMAIN system, r \in Results :
    Dispatch("close", c, r, _assuan_close(system[c], r))

CloseInheritable ==
  \E c \in DOMAIN system, r \in Results :
    Dispatch("close_inheritable", c, r,
             _assuan_close_inheritable(system[c], r))

Read ==
  \E c \in DOMAIN system, r \in IoResults :
    Dispatch("read", c, r, _assuan_read(system[c], r))

Write ==
  \E c \in DOMAIN system, r \in IoResults :
    Dispatch("write", c, r, _assuan_write(system[c], r))

Recvmsg ==
  \E c \in DOMAIN system, msg \in Messages, flags \in Flags, r \in Results :
    DispatchMsg("recvmsg", c, msg, flags, r,
                _assuan_recvmsg(system[c], msg, flags, r))

Sendmsg ==
  \E c \in DOMAIN system, msg \in Messages, flags \in Flags, r \in Results :
    DispatchMsg("sendmsg", c, msg, flags, r,
                _assuan_sendmsg(system[c], msg, flags, r))

Spawn ==
  \E c \in DOMAIN system, r \in Results :
    Dispatch("spawn", c, r, _assuan_spawn(system[c], r))

Waitpid ==
  \E c \in DOMAIN system, r \in Results :
    Dispatch("waitpid", c, r, _assuan_waitpid(system[c], r))

Socketpair ==
  \E c \in DOMAIN system, r \in Results :
    Dispatch("socketpair", c, r, _assuan_socketpair(system[c], r))

Socket ==
  \E c \in DOMAIN system, r \in Results :
    Dispatch("socket", c, r, _assuan_socket(system[c], r))

Connect ==
  \E c \in DOMAIN system, r \in Results :
    Dispatch("connect", c, r, _assuan_connect(system[c], r))

\* The contexts of the model.
Contexts == {"ctx"}

Init ==
  /\ _assuan_system_hooks = DefaultTable
  /\ system \in [Contexts -> CtxInitTables]
  /\ errno = "none"
  /\ alive = TRUE
  /\ last = [op |-> "none"]
  /\ events = <<>>
  /\ ret = "void"
  /\ handed = <<>>
  /\ pc = <<>>
  /\ job = <<>>

\* The calls on the hook table: merges and dispatching wrappers.
Next ==
  \/ CopyToGlobal \/ CopyToContext
  \/ Usleep \/ Pipe \/ Close \/ CloseInheritable \/ Read \/ Write
  \/ Recvmsg \/ Sendmsg \/ Spawn \/ Waitpid \/ Socketpair \/ Socket
  \/ Connect

Spec == Init /\ [][Next]_vars

\* The memory calls, which neither read nor write the hook tables.
MemNext == Malloc \/ Realloc \/ Calloc \/ Free \/ AssuanFree

MemSpec == Init /\ [][MemNext]_vars

\* The wrappers as functions of ctx->system: the table of the context is
\* any table, of any version, and only wrappers are called.
WrapTables == UserTables \cup CtxInitTables \cup {DefaultTable}

WrapInit ==
  /\ _assuan_system_hooks = DefaultTable
  /\ system \in [Contexts -> WrapTables]
  /\ errno = "none"
  /\ alive = TRUE
  /\ last = [op |-> "none"]
  /\ events = <<>>
  /\ ret = "void"
  /\ handed = <<>>
  /\ pc = <<>>
  /\ job = <<>>

WrapNext ==
  \/ Usleep \/ Pipe \/ Close \/ CloseInheritable \/ Read \/ Write
  \/ Recvmsg \/ Sendmsg \/ Spawn \/ Waitpid \/ Socketpair \/ Socket
  \/ Connect

WrapSpec == WrapInit /\ [][WrapNext]_vars

(***************************************************************************)
(* Two threads, each merging into the table of its own context and then    *)
(* calling a wrapper on it.  The merge is taken statement by statement.    *)
(***************************************************************************)
Threads == {"t1", "t2"}

\* The context a thread works on.
ThreadCtx(t) == IF t = "t1" THEN "ctx1" ELSE "ctx2"

\* The src arguments of the threads' merges.
ThreadSrcs ==
  {NullPtr} \cup {<<UserTable(v, o, {})>> : v \in 0 .. MaxVersion, o \in Owners}

\* The statement thread t executes is done and it stands at l.
Goto(t, l) ==
  /\ alive
  /\ pc' = [pc EXCEPT ![t] = l]
  /\ UNCHANGED <<_assuan_system_hooks, errno, alive, last, events, ret,
                 handed>>

\* Thread t calls _assuan_system_hooks_copy (&ctx->system, src).
CopyCall(t) ==
  \E srcp \in ThreadSrcs :
    /\ pc[t] = "idle"
    /\ job' = [job EXCEPT ![t] = [dst |-> ThreadCtx(t), src |-> srcp,
                                  before |-> system[ThreadCtx(t)]]]
    /\ Goto(t, "test")
    /\ UNCHANGED system

\* if (! src) return;
CopyTest(t) ==
  /\ pc[t] = "test"
  /\ Goto(t, IF job[t].src = NullPtr THEN "op" ELSE "reset")
  /\ UNCHANGED <<system, job>>

\* if (dst != &_assuan_system_hooks) memcpy (dst, &_assuan_system_hooks, ...)
CopyReset(t) ==
  /\ pc[t] = "reset"
  /\ system' = IF job[t].dst # "global"
                 THEN copy_reset(system, job[t].dst, _assuan_system_hooks)
                 ELSE system
  /\ Goto(t, "version")
  /\ UNCHANGED job

\* dst->version = ASSUAN_SYSTEM_HOOKS_VERSION;
CopyVersion(t) ==
  /\ pc[t] = "version"
  /\ system' = [system EXCEPT ![job[t].dst].version =
                                ASSUAN_SYSTEM_HOOKS_VERSION]
  /\ Goto(t, "v1")
  /\ UNCHANGED job

\* if (src->version >= 1) { ... }
CopyV1(t) ==
  /\ pc[t] = "v1"
  /\ system' = IF job[t].src[1].version >= 1
                 THEN [system EXCEPT ![job[t].dst] =
                                       copy_v1(@, job[t].src[1])]
                 ELSE system
  /\ Goto(t, "v2")
  /\ UNCHANGED job

\* if (src->version >= 2) { ... }
CopyV2(t) ==
  /\ pc[t] = "v2"
  /\ system' = IF job[t].src[1].version >= 2
                 THEN [system EXCEPT ![job[t].dst] =
                                       copy_v2(@, job[t].src[1])]
                 ELSE system
  /\ Goto(t, "op")
  /\ UNCHANGED job

\* After its merge thread t reads from, or makes a socket on, its context.
ThreadOp(t) ==
  \E name \in {"read", "socket"}, r \in Results :
    LET c == job[t].dst
        res == IF name = "read" THEN _assuan_read(system[c], r)
                                ELSE _assuan_socket(system[c], r)
    IN /\ pc[t] = "op"
       /\ alive
       /\ pc' = [pc EXCEPT ![t] = "done"]
       /\ Record([op |-> name, ctx |-> c, r |-> r, thread |-> t],
                 res.events, res.ret, "unchanged", <<>>)
       /\ UNCHANGED <<_assuan_system_hooks, system, job>>

ConcInit ==
  /\ _assuan_system_hooks = DefaultTable
  /\ system \in [{ThreadCtx(t) : t \in Threads} -> CtxInitTables]
  /\ errno = "none"
  /\ alive = TRUE
  /\ last = [op |-> "none"]
  /\ events = <<>>
  /\ ret = "void"
  /\ handed = <<>>
  /\ pc = [t \in Threads |-> "idle"]
  /\ job = [t \in Threads |-> [dst |-> ThreadCtx(t), src |-> NullPtr,
                               before |-> system[ThreadCtx(t)]]]

ConcNext ==
  \E t \in Threads :
    \/ CopyCall(t) \/ CopyTest(t) \/ CopyReset(t) \/ CopyVersion(t)
    \/ CopyV1(t) \/ CopyV2(t) \/ ThreadOp(t)

ConcSpec == ConcInit /\ [][ConcNext]_vars

(***************************************************************************)
(* Vocabulary of the properties.                                           *)
(***************************************************************************)
\* The table a merge wrote to.
TableOf(d) == IF d = "global" THEN _assuan_system_hooks ELSE system[d]

\* The wrappers, by the name recorded in last.op.
DispatchOps ==
  {"usleep", "pipe", "close", "close_inheritable", "read", "write",
   "recvmsg", "sendmsg", "spawn", "waitpid", "socketpair", "socket",
   "connect"}

\* The slot a wrapper dispatches on.
OpSlot(op) == IF op = "close_inheritable" THEN "close" ELSE op

IsDispatch == last.op \in DispatchOps
IsCopy == last.op = "hooks_copy"
IsCopyWithSrc == IsCopy /\ last.src # NullPtr

\* The notifications among the events of the last call.
Notes == SelectSeq(events, LAMBDA e : e.ev \in {"pre_syscall", "post_syscall"})

\* The calls among the events of the last call.
Calls == SelectSeq(events, LAMBDA e : e.ev = "call")

\* The allocator calls among the events of the last call.
MemCalls == SelectSeq(events, LAMBDA e : e.ev = "mem")

\* The true product overflows size_t.
Overflows(cnt, elsize) == cnt * elsize >= SizeMod

\* The error kind the caller can tell from errno.
ReportedError ==
  CASE errno = "ENOMEM" -> "OutOfMemory"
    [] errno = "EOVERFLOW" -> "Overflow"
    [] OTHER -> "None"

(***************************************************************************)
(* C1: zero-allocate                                                       *)
(***************************************************************************)
\* C1 as stated: whenever count * elementSize overflows the size range,
\* _assuan_calloc fails with the Overflow error and calls the allocate hook
\* zero times.
C1_OverflowError ==
  (last.op = "calloc" /\ Overflows(last.cnt, last.elsize))
    => /\ ret = "NULL"
       /\ ReportedError = "Overflow"
       /\ Len(MemCalls) = 0

\* C1 amended: whenever count * elementSize overflows the size range,
\* _assuan_calloc returns NULL with errno set to ENOMEM, the out-of-memory
\* code, and makes no call of the allocate hook (and no memset).
C1_OverflowNoAlloc ==
  (last.op = "calloc" /\ Overflows(last.cnt, last.elsize))
    => /\ ret = "NULL"
       /\ errno = "ENOMEM"
       /\ events = <<>>

\* A calloc whose product wraps to a value not below count.
C1_Witness ==
  /\ last.op = "calloc"
  /\ Overflows(last.cnt, last.elsize)
  /\ (last.cnt * last.elsize) % SizeMod >= last.cnt
  /\ ret = "NULL"

(***************************************************************************)
(* C2: merge of a version 1 table                                          *)
(***************************************************************************)
\* C2: after a merge whose src is present with version 1, dst's socket and
\* connect slots equal the default table's and its other ten slots equal
\* src's.
C2_MergeV1 ==
  (IsCopyWithSrc /\ last.src[1].version = 1)
    => /\ \A s \in V2Slots :
            TableOf(last.dst)[s] = _assuan_system_hooks[s]
       /\ \A s \in V1Slots : TableOf(last.dst)[s] = last.src[1][s]

\* A version 1 table of an application merged into a context while the
\* default table holds the built-in functions.
C2_Witness ==
  /\ IsCopyWithSrc
  /\ last.dst # "global"
  /\ last.src[1].version = 1
  /\ last.src[1].socketpair.by \in Owners
  /\ last.src[1].socket.by \in Owners
  /\ system[last.dst].socket = Builtin("socket")
  /\ system[last.dst].socketpair = last.src[1].socketpair

(***************************************************************************)
(* C3: merge of a version 2 table                                          *)
(***************************************************************************)
\* C3: after a merge whose src is present with version 2, all twelve slots
\* of dst equal src's.
C3_MergeV2 ==
  (IsCopyWithSrc /\ last.src[1].version = 2)
    => \A s \in SlotNames : TableOf(last.dst)[s] = last.src[1][s]

\* A version 2 table of an application merged into a context.
C3_Witness ==
  /\ IsCopyWithSrc
  /\ last.dst # "global"
  /\ last.src[1].version = 2
  /\ last.src[1].socket.by \in Owners
  /\ system[last.dst].socket = last.src[1].socket
  /\ system[last.dst].connect = last.src[1].connect
  /\ _assuan_system_hooks.socket = Builtin("socket")

(***************************************************************************)
(* C4: merge of a NULL src                                                 *)
(***************************************************************************)
\* C4: a merge whose src is NULL leaves dst, and every other table,
\* unchanged in every field.
C4_NullSrcUnchanged ==
  [][(last'.op = "hooks_copy" /\ last'.src = NullPtr)
       => /\ system' = system
          /\ _assuan_system_hooks' = _assuan_system_hooks]_vars

\* A NULL merge into a context that carries an application's hooks.
C4_Witness ==
  /\ IsCopy
  /\ last.src = NullPtr
  /\ last.dst # "global"
  /\ system[last.dst].version # 0
  /\ system[last.dst].read.by \in Owners
  /\ system[last.dst] # _assuan_system_hooks

(***************************************************************************)
(* C5: the bracket around the default implementation                       *)
(***************************************************************************)
\* The wrappers that put the notifications around the default call, and
\* those that call the default with no notification.
BracketedOps ==
  {"usleep", "close", "close_inheritable", "read", "write", "recvmsg",
   "sendmsg", "waitpid", "connect"}

UnbracketedOps == {"pipe", "spawn", "socketpair", "socket"}

\* The last call ran on a context whose table version is 0.
OnVersionZero == IsDispatch /\ system[last.ctx].version = 0

\* The last call ran on a context whose table version is not 0.
OnVersioned == IsDispatch /\ system[last.ctx].version # 0

\* C5 as stated: on a context whose table version is 0 every one of the
\* operations issues pre-syscall, then calls the default, then issues
\* post-syscall.
C5_AllBracketed ==
  OnVersionZero
    => events = <<Pre, CallDefault(OpSlot(last.op)), Post>>

\* C5 amended: on a context whose table version is 0, sleep, close, read,
\* write, send, receive, wait and connect issue pre-syscall immediately
\* before and post-syscall immediately after the default call; pipe, spawn,
\* socket-pair and socket call the default with no notification.
C5_BracketedOps ==
  OnVersionZero
    => /\ last.op \in BracketedOps
            => events = <<Pre, CallDefault(OpSlot(last.op)), Post>>
       /\ last.op \in UnbracketedOps
            => events = <<CallDefault(OpSlot(last.op))>>

\* A default connect between its two notifications.
C5_Witness ==
  /\ OnVersionZero
  /\ last.op = "connect"
  /\ Len(events) = 3
  /\ events[1] = Pre
  /\ events[3] = Post

(***************************************************************************)
(* C6: pairing of the notifications                                        *)
(***************************************************************************)
\* C6: the notifications a call issues alternate pre, post, pre, post and
\* every pre has its post before the call returns, whatever the called
\* function returned.
C6_PrePostPaired ==
  /\ \A i \in 1 .. Len(Notes) :
       Notes[i] = IF i % 2 = 1 THEN Pre ELSE Post
  /\ Len(Notes) % 2 = 0

\* A default read that failed, after both notifications.
C6_Witness ==
  /\ OnVersionZero
  /\ last.op = "read"
  /\ ret = "err"
  /\ Len(Notes) = 2

(***************************************************************************)
(* C7: version 0 means no hooks                                            *)
(***************************************************************************)
\* C7: on a context whose table version is 0 every operation makes exactly
\* one call, directly to the built-in default, and none through the table's
\* slot, whatever the slot holds.
C7_VersionZeroDefault ==
  OnVersionZero
    => Calls = <<CallDefault(OpSlot(last.op))>>

\* A default write on a version 0 table whose write slot holds a hook.
C7_Witness ==
  /\ OnVersionZero
  /\ last.op = "write"
  /\ system[last.ctx].write.by \in Owners
  /\ Len(Calls) = 1
  /\ Calls[1].via = "direct"

(***************************************************************************)
(* C8: installed hooks are not bracketed                                   *)
(***************************************************************************)
\* C8: on a context whose table version is not 0 an operation makes exactly
\* one call, through its slot of the table, and issues no notification.
C8_HookNotBracketed ==
  OnVersioned
    => events =
         <<CallSlot(OpSlot(last.op), system[last.ctx][OpSlot(last.op)])>>

\* A close served by an application's hook.
C8_Witness ==
  /\ OnVersioned
  /\ last.op = "close"
  /\ system[last.ctx].close.by \in Owners
  /\ ret = "err"
  /\ Len(Notes) = 0

(***************************************************************************)
(* C9: per-slot fallback                                                   *)
(***************************************************************************)
\* C9 as stated: an operation whose slot of the context's table is null is
\* served by the built-in default, and no operation calls through a null
\* slot.
C9_NullSlotFallsBack ==
  IsDispatch
    => /\ system[last.ctx][OpSlot(last.op)] = FnNull
            => Calls = <<CallDefault(OpSlot(last.op))>>
       /\ \A i \in 1 .. Len(Calls) : Calls[i].fn # FnNull

(***************************************************************************)
(* C10: the default table                                                  *)
(***************************************************************************)
\* C10 as stated: every slot of the default table always equals its
\* initial built-in value.
C10_DefaultNeverMutated ==
  Slots(_assuan_system_hooks) = Slots(DefaultTable)

\* The step is a merge into the default table itself of a src that is
\* present with version >= 1.
MergeIntoGlobal ==
  /\ last'.op = "hooks_copy"
  /\ last'.dst = "global"
  /\ last'.src # NullPtr
  /\ last'.src[1].version >= 1

\* C10 amended: the default table's slots change only in a merge whose
\* destination is the default table itself and whose src is present with
\* version >= 1, which overwrites the ten version 1 slots (and, for
\* version >= 2, socket and connect) with src's; every other merge and
\* every operation leaves all its slots as they were.
C10_DefaultChangesOnlyAsDst ==
  [][IF MergeIntoGlobal
       THEN /\ \A s \in V1Slots :
                 _assuan_system_hooks'[s] = last'.src[1][s]
            /\ \A s \in V2Slots :
                 _assuan_system_hooks'[s] =
                   IF last'.src[1].version >= 2
                     THEN last'.src[1][s]
                     ELSE _assuan_system_hooks[s]
       ELSE Slots(_assuan_system_hooks') = Slots(_assuan_system_hooks)]_vars

\* A merge into a context after the default table took an application's
\* read hook.
C10_Witness ==
  /\ IsCopyWithSrc
  /\ last.dst # "global"
  /\ last.src[1].version = 0
  /\ _assuan_system_hooks.read.by \in Owners
  /\ system[last.dst].read = _assuan_system_hooks.read

(***************************************************************************)
(* C11: the version a merge stores                                         *)
(***************************************************************************)
\* C11: after a merge whose src is present, dst.version is the library's
\* version constant, whatever version src declares.
C11_VersionIsLibrarys ==
  IsCopyWithSrc
    => TableOf(last.dst).version = ASSUAN_SYSTEM_HOOKS_VERSION

\* A merge into a context of a table declaring a version above the
\* library's.
C11_Witness ==
  /\ IsCopyWithSrc
  /\ last.dst # "global"
  /\ last.src[1].version > ASSUAN_SYSTEM_HOOKS_VERSION
  /\ system[last.dst].version = ASSUAN_SYSTEM_HOOKS_VERSION

(***************************************************************************)
(* C12: a merge discards what dst held                                     *)
(***************************************************************************)
\* The step is a merge into context c of a src that is present.
MergeIntoContext(c) ==
  /\ last'.op = "hooks_copy"
  /\ last'.dst = c
  /\ last'.src # NullPtr

\* What a merge of src into a fresh copy of the default table glob gives,
\* slot by slot.
MergedFromDefaults(glob, src) ==
  MkTable(ASSUAN_SYSTEM_HOOKS_VERSION,
          [s \in SlotNames |->
             IF (s \in V1Slots /\ src.version >= 1)
                \/ (s \in V2Slots /\ src.version >= 2)
               THEN src[s] ELSE glob[s]])

\* C12: a merge into a context's table of a src that is present yields the
\* merge of src into a fresh copy of the default table, whatever the table
\* held before; after a merge of a followed by a merge of b every slot is
\* b's or the default table's.
C12_MergeDiscardsPrior ==
  [][\A c \in DOMAIN system :
       MergeIntoContext(c)
         => /\ system'[c] =
                 MergedFromDefaults(_assuan_system_hooks, last'.src[1])
            /\ (last.op = "hooks_copy" /\ last.dst = c)
                 => \A s \in SlotNames :
                      system'[c][s] \in
                        {last'.src[1][s], _assuan_system_hooks[s]}]_vars

\* The second application's version 1 table merged into a context: no slot
\* of the first application is left.
C12_Witness ==
  /\ IsCopyWithSrc
  /\ last.dst # "global"
  /\ last.src[1].version = 1
  /\ last.src[1].usleep.by = "app2"
  /\ \A s \in SlotNames : system[last.dst][s].by # "app1"
  /\ system[last.dst].socket = Builtin("socket")

(***************************************************************************)
(* C13: a src of a version above the library's                             *)
(***************************************************************************)
\* The step is a merge of a src that declares a version above 2.
MergeOfNewer ==
  /\ last'.op = "hooks_copy"
  /\ last'.src # NullPtr
  /\ last'.src[1].version > 2

\* The src of the step with its version set to 2.
AsVersionTwo == <<[last'.src[1] EXCEPT !.version = 2]>>

\* C13: a merge of a src with version > 2 completes and leaves dst as the
\* merge of the same src with version 2 would leave it, with the twelve
\* slots and the version as its only fields.
C13_NewerAsVersionTwo ==
  [][MergeOfNewer
       => /\ alive'
          /\ last'.dst = "global"
               => _assuan_system_hooks' =
                    _assuan_system_hooks_copy(_assuan_system_hooks, TRUE,
                                              AsVersionTwo,
                                              _assuan_system_hooks)
          /\ last'.dst # "global"
               => system'[last'.dst] =
                    _assuan_system_hooks_copy(system[last'.dst], FALSE,
                                              AsVersionTwo,
                                              _assuan_system_hooks)
          /\ DOMAIN _assuan_system_hooks' = DOMAIN DefaultTable
          /\ \A c \in DOMAIN system :
               DOMAIN system'[c] = DOMAIN DefaultTable]_vars

\* A version 3 table merged into a context, socket and connect included.
C13_Witness ==
  /\ IsCopyWithSrc
  /\ last.dst # "global"
  /\ last.src[1].version > 2
  /\ last.src[1].socket.by \in Owners
  /\ system[last.dst].socket = last.src[1].socket
  /\ system[last.dst].usleep = last.src[1].usleep
  /\ alive

(***************************************************************************)
(* C14: read and write make one attempt                                    *)
(***************************************************************************)
\* C14: a read or write makes exactly one call of the hook or the default,
\* also when that call transfers only a part or fails, and returns what
\* that call returned (a call through a null slot does not return).
C14_OneAttempt ==
  last.op \in {"read", "write"}
    => /\ Len(Calls) = 1
       /\ Calls[1].fn # FnNull => ret = last.r

\* A read whose one call transferred a part, and a part is returned.
C14_Witness ==
  /\ last.op = "read"
  /\ last.r = "partial"
  /\ ret = "partial"
  /\ Len(Calls) = 1
  /\ Calls[1].fn.by \in Owners

(***************************************************************************)
(* C15: the socket primitives                                              *)
(***************************************************************************)
SocketOps == {"socketpair", "socket", "connect"}

C16_MessageInOneCall ==
  (IsDispatch /\ last.op \in {"sendmsg", "recvmsg"})
    => /\ Len(Calls) = 1
       /\ Calls[1].slot = last.op
       /\ handed = <<MsgArgs(last.msg, last.flags)>>

\* A message with data and a descriptor sent with flags through the
\* default implementation.
C16_Witness ==
  /\ IsDispatch
  /\ last.op = "sendmsg"
  /\ last.msg = [data |-> "bytes", fds |-> "fd"]
  /\ last.flags = "MSG_DONTWAIT"
  /\ Calls = <<CallDefault("sendmsg")>>
  /\ handed = <<MsgArgs(last.msg, last.flags)>>

(***************************************************************************)
(* C18: free                                                               *)
(***************************************************************************)
FreeOps == {"free", "assuan_free"}

\* C18: a free of NULL calls no hook and changes neither errno nor a hook
\* table nor the process; a free of a pointer calls the free hook exactly
\* once, with that pointer.
C18_FreeOfNull ==
  [][last'.op \in FreeOps
       => IF last'.ptr = "NULL"
            THEN /\ events' = <<>>
                 /\ UNCHANGED <<_assuan_system_hooks, system, errno, alive>>
            ELSE events' = <<CallFree(last'.ptr)>>]_vars

\* NULL freed after a failed calloc: errno still holds ENOMEM.
C18_Witness ==
  /\ last.op \in FreeOps
  /\ last.ptr = "NULL"
  /\ events = <<>>
  /\ errno = "ENOMEM"

(***************************************************************************)
(* C19: a merge that installs no slot                                      *)
(***************************************************************************)
\* The last call merged a present src of version 0 into a context's table.
EmptyMergeIntoContext ==
  /\ last.op = "hooks_copy"
  /\ last.dst # "global"
  /\ last.src # NullPtr
  /\ last.src[1].version = 0

\* C19: after a merge of a present src of version 0 into a context's table
\* every slot of that table equals the default table's slot, and the next
\* usleep, close, read, write, sendmsg, recvmsg, waitpid or connect on that
\* context is still made as pre-syscall, default implementation,
\* post-syscall.
C19_EmptyMergeKeepsBracket ==
  [][/\ EmptyMergeIntoContext'
          => \A s \in SlotNames :
               system'[last'.dst][s] = _assuan_system_hooks'[s]
     /\ (/\ EmptyMergeIntoContext
         /\ last'.op \in BracketedOps
         /\ last'.ctx = last.dst)
          => events' = <<Pre, CallDefault(OpSlot(last'.op)), Post>>]_vars

(***************************************************************************)
(* C17: merges on separate contexts from two threads                       *)
(***************************************************************************)
\* What thread t's merge gives when it runs alone.
MergedAlone(j, glob) == _assuan_system_hooks_copy(j.before, FALSE, j.src, glob)

\* C17: with two threads merging into the tables of two different contexts,
\* in every interleaving a step of one thread leaves the other context's
\* table as it is, a finished merge leaves the thread's table as the merge
\* run alone would, and the thread's next call is dispatched by that table.
C17_ContextsIndependent ==
  [][\A t \in Threads :
       /\ pc'[t] # pc[t]
            => \A c \in DOMAIN system \ {job'[t].dst} : system'[c] = system[c]
       /\ pc'[t] \in {"op", "done"}
            => system'[job'[t].dst] =
                 MergedAlone(job'[t], _assuan_system_hooks')
       /\ (pc[t] = "op" /\ pc'[t] = "done")
            => events' =
                 (IF last'.op = "read"
                    THEN _assuan_read(MergedAlone(job[t], _assuan_system_hooks),
                                      last'.r)
                    ELSE _assuan_socket(MergedAlone(job[t],
                                                    _assuan_system_hooks),
                                        last'.r)).events]_vars

\* Thread t1 has merged a version 1 table and made a socket with the
\* default implementation through the slot, while thread t2 is in the
\* middle of merging another caller's version 2 table.
C17_Witness ==
  /\ DOMAIN pc = Threads
  /\ pc["t1"] = "done"
  /\ pc["t2"] = "v2"
  /\ job["t1"].src = <<UserTable(1, "app1", {})>>
  /\ job["t2"].src = <<UserTable(2, "app2", {})>>
  /\ last.op = "socket"
  /\ last.thread = "t1"
  /\ events = <<CallSlot("socket", Builtin("socket"))>>
  /\ system["ctx2"].read = Hook("app2", "read")

=============================================================================
